---- MODULE Spec2Model ----
(***************************************************************************)
(* Model of the admin authentication gate of the SAP migration suite       *)
(* (src/admin_auth.py): AdminAuth, SessionManager, and the Streamlit       *)
(* session state and secret source they read and write; and of the JSON    *)
(* configuration store of the foundation and payroll admin panels.         *)
(*                                                                         *)
(* Strings built with f-strings are modelled as pairs <<prefix, suffix>>,  *)
(* standing for the concatenation prefix + suffix.                         *)
(***************************************************************************)
EXTENDS Naturals, FiniteSets, Sequences, TLC

VARIABLES
    session_state,  \* st.session_state: a dict, key -> value; absent keys are not in DOMAIN
    secrets,        \* st.secrets: [avail, kv]; avail = FALSE when no secrets file can be read
    failed,         \* ghost: number of failed authentication attempts so far
    last,           \* ghost: the last call made, its arguments and its outcome
    fs,             \* the config directories: path -> file content; absent files are not in DOMAIN
    inflight,       \* script runs under way: session -> position and local variables
    widgets         \* the browser's widget state: widget -> value; widgets not on the page are not in DOMAIN

vars == <<session_state, secrets, failed, last, fs, inflight, widgets>>

(***************************************************************************)
(* Bounds and value sets                                                   *)
(***************************************************************************)
\* Cap of the ghost counter of failed attempts.
MaxFailed == 1

\* The three systems SessionManager iterates over.
Systems == {"employee", "foundation", "payroll"}

\* Names an AdminAuth may be constructed from (one differently-cased).
SystemNames == Systems \cup {"Payroll"}

\* The literal default every create_*_admin helper passes.
DefaultPassword == "admin123"

\* Values a configured secret may take.
SecretValues == {"pw1", "pw2"}

\* Passwords an operator may type.
Passwords == {DefaultPassword} \cup SecretValues \cup {"wrong"}

\* Widgets the operator may have activated to trigger a script run.
AuthClicks == {"none", "login", "clear", "logout", "clear_cache"}

\* The buttons of the panel content that end the run themselves.
ContentClicks == {"add_wage_type", "import_wage_types"}

Clicks == AuthClicks \cup ContentClicks

(***************************************************************************)
(* str.lower() on the names used                                           *)
(***************************************************************************)
lower(s) ==
    CASE s = "Payroll" -> "payroll"
      [] s = "PA0001" -> "pa0001"
      [] s = "PA0002" -> "pa0002"
      [] s = "PA0006" -> "pa0006"
      [] s = "PA0105" -> "pa0105"
      [] OTHER -> s

(***************************************************************************)
(* AdminAuth.__init__                                                      *)
(***************************************************************************)
\* Variant: the constructor keeps the name as given (no lower-casing).
AdminAuth_no_lower(system_name, default_password) ==
    [ system_name      |-> system_name,
      default_password |-> default_password,
      session_key      |-> <<system_name, "_admin_authenticated">>,
      password_key     |-> <<system_name, "_admin_password">> ]

\* Variant: one session key for every system.
AdminAuth_shared_key(system_name, default_password) ==
    [ system_name      |-> lower(system_name),
      default_password |-> default_password,
      session_key      |-> <<"", "admin_authenticated">>,
      password_key     |-> <<lower(system_name), "_admin_password">> ]

AdminAuth(system_name, default_password) ==
    [ system_name      |-> lower(system_name),
      default_password |-> default_password,
      session_key      |-> <<lower(system_name), "_admin_authenticated">>,
      password_key     |-> <<lower(system_name), "_admin_password">> ]

create_admin(name) == AdminAuth(name, DefaultPassword)

MasterKey == <<"master", "_admin_password">>

PasswordKeys == {<<s, "_admin_password">> : s \in Systems} \cup {MasterKey}

(***************************************************************************)
(* dict operations on st.session_state                                     *)
(***************************************************************************)
EmptyDict == [k \in {} |-> FALSE]

dict_get(d, key, default) == IF key \in DOMAIN d THEN d[key] ELSE default

dict_set(d, key, value) ==
    [k \in DOMAIN d \cup {key} |-> IF k = key THEN value ELSE d[k]]

dict_del(d, keys) == [k \in DOMAIN d \ keys |-> d[k]]

(***************************************************************************)
(* st.secrets.get(key, default): Mapping.get over the parsed secrets file. *)
(* Parsing raises when no secrets file is available; a missing key gives   *)
(* the default.                                                            *)
(***************************************************************************)
Raise == [raised |-> TRUE, val |-> "exception"]

Return(v) == [raised |-> FALSE, val |-> v]

secrets_get(src, key, default) ==
    IF ~src.avail THEN Raise
    ELSE Return(dict_get(src.kv, key, default))

SecretConfigs ==
    {[avail |-> FALSE, kv |-> EmptyDict]} \cup
    {[avail |-> TRUE, kv |-> f] :
        f \in UNION {[D -> SecretValues] : D \in SUBSET PasswordKeys}}

\* The configurations a session is explored under: the system secrets that are
\* configured share one value, the master secret has another.
SessionSecretConfigs ==
    {c \in SecretConfigs :
        \A k \in DOMAIN c.kv : c.kv[k] = (IF k = MasterKey THEN "pw2" ELSE "pw1")}

(***************************************************************************)
(* AdminAuth.is_authenticated                                              *)
(***************************************************************************)
\* Variant: a missing session key reads as authenticated.
is_authenticated_default_true(self, ss) == dict_get(ss, self.session_key, TRUE)

is_authenticated(self, ss) == dict_get(ss, self.session_key, FALSE)

(***************************************************************************)
(* AdminAuth.get_password                                                  *)
(***************************************************************************)
\* Variant: the fallback lookup is not wrapped in its own try/except.
get_password_no_inner_try(self, src) ==
    LET first == secrets_get(src, self.password_key, self.default_password)
        second == secrets_get(src, MasterKey, self.default_password)
    IN  IF ~first.raised THEN first ELSE second

get_password(self, src) ==
    LET first == secrets_get(src, self.password_key, self.default_password)
        second == secrets_get(src, MasterKey, self.default_password)
    IN  IF ~first.raised THEN first
        ELSE IF ~second.raised THEN second
        ELSE Return(self.default_password)

(***************************************************************************)
(* AdminAuth.authenticate: [raised, ret, ss]                               *)
(***************************************************************************)
\* Variant: attempts are refused once one attempt has failed (a lockout).
authenticate_lockout(self, password, ss, src) ==
    LET correct_password == get_password(self, src)
    IN  IF correct_password.raised
        THEN [raised |-> TRUE, ret |-> FALSE, ss |-> ss]
        ELSE IF password = correct_password.val /\ failed = 0
        THEN [raised |-> FALSE, ret |-> TRUE,
              ss |-> dict_set(ss, self.session_key, TRUE)]
        ELSE [raised |-> FALSE, ret |-> FALSE, ss |-> ss]

\* Variant: the flag is assigned the result of the comparison.
authenticate_assign(self, password, ss, src) ==
    LET correct_password == get_password(self, src)
    IN  IF correct_password.raised
        THEN [raised |-> TRUE, ret |-> FALSE, ss |-> ss]
        ELSE [raised |-> FALSE, ret |-> password = correct_password.val,
              ss |-> dict_set(ss, self.session_key, password = correct_password.val)]

authenticate(self, password, ss, src) ==
    LET correct_password == get_password(self, src)
    IN  IF correct_password.raised
        THEN [raised |-> TRUE, ret |-> FALSE, ss |-> ss]
        ELSE IF password = correct_password.val
        THEN [raised |-> FALSE, ret |-> TRUE,
              ss |-> dict_set(ss, self.session_key, TRUE)]
        ELSE [raised |-> FALSE, ret |-> FALSE, ss |-> ss]

(***************************************************************************)
(* AdminAuth.logout                                                        *)
(***************************************************************************)
\* Variant: logout flips the flag.
logout_toggle(self, ss) ==
    dict_set(ss, self.session_key, ~dict_get(ss, self.session_key, FALSE))

logout(self, ss) == dict_set(ss, self.session_key, FALSE)

(***************************************************************************)
(* SessionManager                                                          *)
(***************************************************************************)
get_active_admin_sessions(ss) ==
    [system \in Systems |-> dict_get(ss, <<system, "_admin_authenticated">>, FALSE)]

logout_all_systems(ss) ==
    [k \in DOMAIN ss \cup {<<system, "_admin_authenticated">> : system \in Systems} |->
        IF k \in {<<system, "_admin_authenticated">> : system \in Systems}
        THEN FALSE ELSE ss[k]]

(***************************************************************************)
(* 'word' in key.lower() for a session key <<prefix, suffix>>: the         *)
(* suffixes used contain no system name, so the word occurs exactly when   *)
(* the lower-cased prefix is the word.                                     *)
(***************************************************************************)
key_contains(key, word) == lower(key[1]) = word

(***************************************************************************)
(* The "Clear Session Cache" / "Clear Payroll Cache" button of the         *)
(* foundation and payroll admin panels.                                    *)
(***************************************************************************)
clear_session_cache(word, ss) ==
    LET keys_to_clear == {key \in DOMAIN ss : key_contains(key, word)}
    IN  dict_del(ss, keys_to_clear)

(***************************************************************************)
(* AdminAuth.show_login_screen: [ret, exit, prompt, ss, attempt]           *)
(*   exit    "return" when the method returns, "rerun" when st.rerun()     *)
(*           aborts the script run                                         *)
(*   attempt "none", "ok" or "bad": the outcome of the authenticate call   *)
(***************************************************************************)
\* Variant: a successful login lets the same run proceed.
show_login_screen_proceed(self, click, password_input, ss, src) ==
    IF is_authenticated(self, ss)
    THEN [ret |-> TRUE, exit |-> "return", prompt |-> FALSE, ss |-> ss,
          attempt |-> "none"]
    ELSE IF click = "login"
    THEN LET a == authenticate(self, password_input, ss, src)
         IN  IF a.ret
             THEN [ret |-> TRUE, exit |-> "return", prompt |-> TRUE, ss |-> a.ss,
                   attempt |-> "ok"]
             ELSE [ret |-> FALSE, exit |-> "return", prompt |-> TRUE, ss |-> a.ss,
                   attempt |-> "bad"]
    ELSE IF click = "clear"
    THEN [ret |-> FALSE, exit |-> "rerun", prompt |-> TRUE, ss |-> ss,
          attempt |-> "none"]
    ELSE [ret |-> FALSE, exit |-> "return", prompt |-> TRUE, ss |-> ss,
          attempt |-> "none"]

show_login_screen(self, click, password_input, ss, src) ==
    IF is_authenticated(self, ss)
    THEN [ret |-> TRUE, exit |-> "return", prompt |-> FALSE, ss |-> ss,
          attempt |-> "none"]
    ELSE IF click = "login"
    THEN LET a == authenticate(self, password_input, ss, src)
         IN  IF a.ret
             THEN [ret |-> FALSE, exit |-> "rerun", prompt |-> TRUE, ss |-> a.ss,
                   attempt |-> "ok"]
             ELSE [ret |-> FALSE, exit |-> "return", prompt |-> TRUE, ss |-> a.ss,
                   attempt |-> "bad"]
    ELSE IF click = "clear"
    THEN [ret |-> FALSE, exit |-> "rerun", prompt |-> TRUE, ss |-> ss,
          attempt |-> "none"]
    ELSE [ret |-> FALSE, exit |-> "return", prompt |-> TRUE, ss |-> ss,
          attempt |-> "none"]

(***************************************************************************)
(* AdminAuth.show_logout_sidebar: [exit, shown, ss]                        *)
(***************************************************************************)
\* Variant: the logout button logs out without st.rerun().
show_logout_sidebar_no_rerun(self, click, ss) ==
    IF ~is_authenticated(self, ss)
    THEN [exit |-> "return", shown |-> FALSE, ss |-> ss]
    ELSE IF click = "logout"
    THEN [exit |-> "return", shown |-> TRUE, ss |-> logout(self, ss)]
    ELSE [exit |-> "return", shown |-> TRUE, ss |-> ss]

show_logout_sidebar(self, click, ss) ==
    IF ~is_authenticated(self, ss)
    THEN [exit |-> "return", shown |-> FALSE, ss |-> ss]
    ELSE IF click = "logout"
    THEN [exit |-> "rerun", shown |-> TRUE, ss |-> logout(self, ss)]
    ELSE [exit |-> "return", shown |-> TRUE, ss |-> ss]

(***************************************************************************)
(* Initial state: a fresh browser session under any secret configuration.  *)
(***************************************************************************)
Init ==
    /\ session_state = EmptyDict
    /\ secrets \in SessionSecretConfigs
    /\ failed = 0
    /\ last = [op |-> "init"]
    /\ fs = EmptyDict
    /\ inflight = EmptyDict
    /\ widgets = EmptyDict

(***************************************************************************)
(* Actions: one per call into the gate.                                    *)
(***************************************************************************)
\* The ghost counter after an attempt with result ok.
count_attempt(ok) == IF ok THEN failed ELSE failed + 1

GetPassword(name) ==
    LET self == create_admin(name)
        r == get_password(self, secrets)
    IN  /\ last' = [op |-> "get_password", sys |-> name, raised |-> r.raised,
                    ret |-> r.val]
        /\ UNCHANGED <<session_state, secrets, failed, fs, inflight, widgets>>

IsAuthenticated(name) ==
    LET self == create_admin(name)
    IN  /\ last' = [op |-> "is_authenticated", sys |-> name,
                    ret |-> is_authenticated(self, session_state)]
        /\ UNCHANGED <<session_state, secrets, failed, fs, inflight, widgets>>

Authenticate(name, password) ==
    LET self == create_admin(name)
        r == authenticate(self, password, session_state, secrets)
    IN  /\ r.ret \/ failed < MaxFailed
        /\ session_state' = r.ss
        /\ failed' = count_attempt(r.ret)
        /\ last' = [op |-> "authenticate", sys |-> name, password |-> password,
                    raised |-> r.raised, ret |-> r.ret]
        /\ UNCHANGED <<secrets, fs, inflight, widgets>>

Logout(name) ==
    LET self == create_admin(name)
    IN  /\ session_state' = logout(self, session_state)
        /\ last' = [op |-> "logout", sys |-> name]
        /\ UNCHANGED <<secrets, failed, fs, inflight, widgets>>

GetActiveAdminSessions ==
    /\ last' = [op |-> "get_active_admin_sessions",
                ret |-> get_active_admin_sessions(session_state)]
    /\ UNCHANGED <<session_state, secrets, failed, fs, inflight, widgets>>

LogoutAllSystems ==
    /\ session_state' = logout_all_systems(session_state)
    /\ last' = [op |-> "logout_all_systems",
                before |-> get_active_admin_sessions(session_state)]
    /\ UNCHANGED <<secrets, failed, fs, inflight, widgets>>

(***************************************************************************)
(* Credential resolution on its own: every secret configuration, and the   *)
(* calls that resolve the credential.                                      *)
(***************************************************************************)
InitCredential ==
    /\ session_state = EmptyDict
    /\ secrets \in SecretConfigs
    /\ failed = 0
    /\ last = [op |-> "init"]
    /\ fs = EmptyDict
    /\ inflight = EmptyDict
    /\ widgets = EmptyDict

NextCredential ==
    \/ \E name \in Systems : GetPassword(name)
    \/ \E name \in Systems, password \in Passwords : Authenticate(name, password)

SpecCredential == InitCredential /\ [][NextCredential]_vars

(***************************************************************************)
(* Python values, as <<type, payload>>. A dict is a function from its      *)
(* string keys, a list a sequence.                                         *)
(***************************************************************************)
PyNone == <<"NoneType", "None">>

PyStr(s) == <<"str", s>>

PyBool(b) == <<"bool", b>>

PyDict(f) == <<"dict", f>>

PyList(s) == <<"list", s>>

\* A numpy.bool_ as pandas hands it out; json cannot serialize it.
NumpyBool(b) == <<"numpy.bool_", b>>

\* bool(value): the truth test of `if config_data`.
truthy(value) ==
    CASE value[1] = "NoneType" -> FALSE
      [] value[1] = "bool" -> value[2]
      [] value[1] = "numpy.bool_" -> value[2]
      [] value[1] = "str" -> value[2] # ""
      [] value[1] = "dict" -> DOMAIN value[2] # {}
      [] value[1] = "list" -> Len(value[2]) > 0

(***************************************************************************)
(* json.dump / json.load. A JSON text is modelled by its value tree,       *)
(* <<kind, payload>> with kinds object, array, string and literal.         *)
(***************************************************************************)
RECURSIVE json_serializable(_)
json_serializable(value) ==
    CASE value[1] = "dict" -> \A k \in DOMAIN value[2] : json_serializable(value[2][k])
      [] value[1] = "list" -> \A i \in DOMAIN value[2] : json_serializable(value[2][i])
      [] value[1] = "numpy.bool_" -> FALSE
      [] OTHER -> TRUE

RECURSIVE json_encode(_)
json_encode(value) ==
    CASE value[1] = "dict" ->
            <<"object", [k \in DOMAIN value[2] |-> json_encode(value[2][k])]>>
      [] value[1] = "list" ->
            <<"array", [i \in DOMAIN value[2] |-> json_encode(value[2][i])]>>
      [] value[1] = "str" -> <<"string", value[2]>>
      [] value[1] = "bool" -> <<"literal", IF value[2] THEN "true" ELSE "false">>
      [] value[1] = "NoneType" -> <<"literal", "null">>

RECURSIVE json_decode(_)
json_decode(text) ==
    CASE text[1] = "object" ->
            PyDict([k \in DOMAIN text[2] |-> json_decode(text[2][k])])
      [] text[1] = "array" ->
            PyList([i \in DOMAIN text[2] |-> json_decode(text[2][i])])
      [] text[1] = "string" -> PyStr(text[2])
      [] text[1] = "literal" ->
            IF text[2] = "null" THEN PyNone ELSE PyBool(text[2] = "true")

\* File contents: a complete JSON text, or what a write that stopped half way
\* leaves behind (open(path, "w") truncates before json.dump writes).
JsonFile(text) == [valid |-> TRUE, json |-> text]

TruncatedFile == [valid |-> FALSE, json |-> <<"literal", "">>]

(***************************************************************************)
(* Documents and input sets of the store                                   *)
(***************************************************************************)
StoreSystems == {"foundation", "payroll"}

\* CONFIG_DIR of each panel module.
CONFIG_DIR(system) ==
    CASE system = "foundation" -> "foundation_configs"
      [] system = "payroll" -> "payroll_configs"

\* The categories each panel's backup collects.
BackupTypes(system) ==
    CASE system = "foundation" -> {"hierarchy_rules", "validation_rules", "processing_settings"}
      [] system = "payroll" -> {"wage_types", "validation_rules", "processing_settings"}

\* The keys each panel's restore skips.
ReservedKeys(system) ==
    CASE system = "foundation" -> {"backup_timestamp"}
      [] system = "payroll" -> {"backup_timestamp", "system"}

\* The category of each panel that is saved in the explored runs.
MainType(system) ==
    CASE system = "foundation" -> "hierarchy_rules"
      [] system = "payroll" -> "wage_types"

\* The categories saved in the explored runs: one of the panel's own and one
\* outside its fixed list.
StoreTypes(system) == {MainType(system), "custom"}

WageTypesDoc ==
    PyDict([code \in {"1000"} |->
        PyDict([field \in {"name", "taxable"} |->
            IF field = "name" THEN PyStr("Basic Pay") ELSE PyBool(TRUE)])])

RulesDoc == PyDict([k \in {"rules"} |-> PyList(<<PyStr("r1")>>)])

EmptyDoc == PyDict(EmptyDict)

\* A wage type table holding a value json.dump rejects (a numpy scalar taken
\* from a DataFrame row of one dtype).
UnserializableDoc ==
    PyDict([code \in {"1000"} |->
        PyDict([field \in {"name", "taxable"} |->
            IF field = "name" THEN PyStr("Basic Pay") ELSE NumpyBool(TRUE)])])

SerializableDocs == {WageTypesDoc, RulesDoc, EmptyDoc}

Documents == SerializableDocs \cup {UnserializableDoc}

\* The documents the explored runs save.
SavedDocs == {WageTypesDoc, EmptyDoc, UnserializableDoc}

\* What the operating system does to a write.
IoModes == {"ok", "open_fails", "write_fails"}

(***************************************************************************)
(* os.path.join(CONFIG_DIR, f"{config_type}_config.json")                  *)
(***************************************************************************)
\* A category name that leaves the foundation panel's directory.
TraversalType == "../payroll_configs/wage_types"

\* config_type.split("/"), as the operating system reads the path.
split_path(config_type) ==
    IF config_type = TraversalType
    THEN <<"..", "payroll_configs", "wage_types">>
    ELSE <<config_type>>

\* The directory the operating system ends in, and the last component.
RECURSIVE walk(_, _)
walk(dirs, parts) ==
    IF Len(parts) = 1 THEN <<dirs, parts[1]>>
    ELSE IF Head(parts) = ".."
    THEN walk(SubSeq(dirs, 1, Len(dirs) - 1), Tail(parts))
    ELSE walk(Append(dirs, Head(parts)), Tail(parts))

\* The file the joined path names: its directory (a name when it lies directly
\* under the working directory) and its file name.
config_path(system, config_type) ==
    LET w == walk(<<CONFIG_DIR(system)>>, split_path(config_type))
    IN  <<IF Len(w[1]) = 1 THEN w[1][1] ELSE w[1], <<w[2], "_config.json">>>>

(***************************************************************************)
(* save_foundation_config / save_payroll_config:                           *)
(* [fs, failed, raised, ret, message]                                      *)
(*   failed   the write did not complete                                   *)
(*   raised   an exception reaches the caller                              *)
(*   message  what the function shows: st.success or st.error              *)
(* io says what the operating system does to this write.                   *)
(***************************************************************************)
\* Variant: a mapping is merged into the mapping already stored.
save_config_merge(system, config_type, config_data, io, files) ==
    LET path == config_path(system, config_type)
        prior == IF path \in DOMAIN files /\ files[path].valid
                 THEN json_decode(files[path].json) ELSE PyNone
        merged == IF prior[1] = "dict" /\ config_data[1] = "dict"
                  THEN PyDict([k \in DOMAIN prior[2] \cup DOMAIN config_data[2] |->
                           IF k \in DOMAIN config_data[2]
                           THEN config_data[2][k] ELSE prior[2][k]])
                  ELSE config_data
    IN  IF io = "open_fails"
        THEN [fs |-> files, failed |-> TRUE, raised |-> FALSE, ret |-> PyNone,
              message |-> "error"]
        ELSE IF io = "write_fails" \/ ~json_serializable(config_data)
        THEN [fs |-> dict_set(files, path, TruncatedFile), failed |-> TRUE,
              raised |-> FALSE, ret |-> PyNone, message |-> "error"]
        ELSE [fs |-> dict_set(files, path, JsonFile(json_encode(merged))),
              failed |-> FALSE, raised |-> FALSE, ret |-> PyNone,
              message |-> "success"]

save_config(system, config_type, config_data, io, files) ==
    LET path == config_path(system, config_type)
    IN  IF io = "open_fails"
        THEN [fs |-> files, failed |-> TRUE, raised |-> FALSE, ret |-> PyNone,
              message |-> "error"]
        ELSE IF io = "write_fails" \/ ~json_serializable(config_data)
        THEN [fs |-> dict_set(files, path, TruncatedFile), failed |-> TRUE,
              raised |-> FALSE, ret |-> PyNone, message |-> "error"]
        ELSE [fs |-> dict_set(files, path, JsonFile(json_encode(config_data))),
              failed |-> FALSE, raised |-> FALSE, ret |-> PyNone,
              message |-> "success"]

(***************************************************************************)
(* load_foundation_config / load_payroll_config: [ret, raised, message]    *)
(***************************************************************************)
load_config(system, config_type, files) ==
    LET path == config_path(system, config_type)
    IN  IF path \notin DOMAIN files
        THEN [ret |-> PyNone, raised |-> FALSE, message |-> "none"]
        ELSE IF ~files[path].valid
        THEN [ret |-> PyNone, raised |-> FALSE, message |-> "error"]
        ELSE [ret |-> json_decode(files[path].json), raised |-> FALSE,
              message |-> "none"]

(***************************************************************************)
(* system_maintenance, "Create Backup": the bundle offered for download.   *)
(***************************************************************************)
BackupTimestamp == PyStr("2024-01-01T00:00:00")

backup_data(system, files) ==
    PyDict([k \in BackupTypes(system) \cup ReservedKeys(system) |->
        IF k = "backup_timestamp" THEN BackupTimestamp
        ELSE IF k = "system" THEN PyStr("payroll")
        ELSE load_config(system, k, files).ret])

\* json.dumps(backup_data, indent=2): the text of the downloaded file.
backup_json(system, files) == json_encode(backup_data(system, files))

(***************************************************************************)
(* system_maintenance, "Restore Configuration":                            *)
(* [fs, saved, failed, warned, message]                                    *)
(*   saved    the bundle keys save was called for                          *)
(*   failed   those of them whose write did not complete                   *)
(*   warned   the payroll panel's "doesn't appear to be a payroll backup"  *)
(* restore_file is the text of the uploaded file, read with json.load; io   *)
(* maps each bundle key to what the operating system does to its write.    *)
(* The saves touch different files, so their order does not matter.        *)
(***************************************************************************)
\* Variant: only the categories of the panel's fixed list are restored.
restore_keys_known_only(system, bundle) ==
    {k \in DOMAIN bundle[2] \cap BackupTypes(system) : truthy(bundle[2][k])}

restore_keys(system, bundle) ==
    {k \in DOMAIN bundle[2] : k \notin ReservedKeys(system) /\ truthy(bundle[2][k])}

\* The loop over backup_data.items(), one save per key that passes the test.
RECURSIVE restore_saves(_, _, _, _, _)
restore_saves(system, bundle, keys, io, files) ==
    IF keys = {} THEN files
    ELSE LET k == CHOOSE key \in keys : TRUE
         IN  restore_saves(system, bundle, keys \ {k}, io,
                           save_config(system, k, bundle[2][k], io[k], files).fs)

\* backup_data.get("system") != "payroll", tested by the payroll panel only.
restore_warns(system, bundle) ==
    /\ system = "payroll"
    /\ ("system" \notin DOMAIN bundle[2] \/ bundle[2]["system"] # PyStr("payroll"))

\* Variant: a failed save ends the restore and nothing of it is kept.
restore_config_all_or_nothing(system, restore_file, io, files) ==
    LET bundle == json_decode(restore_file)
        keys == restore_keys(system, bundle)
        bad == {k \in keys :
                   save_config(system, k, bundle[2][k], io[k], files).failed}
    IN  [fs |-> IF bad = {} THEN restore_saves(system, bundle, keys, io, files)
                ELSE files,
         saved |-> keys,
         failed |-> bad,
         warned |-> restore_warns(system, bundle),
         message |-> IF bad = {} THEN "success" ELSE "error"]

restore_config(system, restore_file, io, files) ==
    LET bundle == json_decode(restore_file)
        keys == restore_keys(system, bundle)
    IN  [fs |-> restore_saves(system, bundle, keys, io, files),
         saved |-> keys,
         failed |-> {k \in keys :
                        save_config(system, k, bundle[2][k], io[k], files).failed},
         warned |-> restore_warns(system, bundle),
         message |-> "success"]

(***************************************************************************)
(* system_maintenance, "Reset All Configuration": [fs, deleted, message]   *)
(* Path(CONFIG_DIR).glob("*.json") matches every "<type>_config.json".     *)
(***************************************************************************)
glob_json(system, files) ==
    {path \in DOMAIN files : path[1] = CONFIG_DIR(system) /\ path[2][2] = "_config.json"}

\* What the operating system does to the loop of unlinks: refused holds the
\* files whose unlink raises, before the files the glob yields ahead of the
\* first of them (the order is the directory's, not the names').
NoRefusal == [refused |-> {}, before |-> {}]

\* The outcomes of the loop over the files of a store: no unlink raises, or
\* one does after any of the other files were removed.
ResetIo(system, files) ==
    {NoRefusal} \cup
    {[refused |-> {path}, before |-> reached] :
        path \in glob_json(system, files),
        reached \in SUBSET glob_json(system, files)}

\* Variant: the glob runs over every config directory.
reset_configuration_all_dirs(system, button, checkbox, io, files) ==
    LET targets == DOMAIN files
        reached == (io.before \cap targets) \ io.refused
    IN  IF ~button
        THEN [fs |-> files, deleted |-> {}, message |-> "none"]
        ELSE IF ~checkbox
        THEN [fs |-> files, deleted |-> {}, message |-> "warning"]
        ELSE IF targets \cap io.refused # {}
        THEN [fs |-> dict_del(files, reached), deleted |-> reached,
              message |-> "error"]
        ELSE [fs |-> dict_del(files, targets), deleted |-> targets,
              message |-> "success"]

\* Variant: the files are removed as soon as the button reads pressed.
reset_configuration_one_click(system, button, checkbox, io, files) ==
    LET targets == glob_json(system, files)
        reached == (io.before \cap targets) \ io.refused
    IN  IF ~button
        THEN [fs |-> files, deleted |-> {}, message |-> "none"]
        ELSE IF targets \cap io.refused # {}
        THEN [fs |-> dict_del(files, reached), deleted |-> reached,
              message |-> "error"]
        ELSE [fs |-> dict_del(files, targets), deleted |-> targets,
              message |-> "success"]

\* button and checkbox are what st.button and st.checkbox return in the run.
\* The loop unlinks the files in the order the glob yields them and stops at
\* the first unlink that raises: the files removed before it stay removed.
reset_configuration(system, button, checkbox, io, files) ==
    LET targets == glob_json(system, files)
        reached == (io.before \cap targets) \ io.refused
    IN  IF ~button
        THEN [fs |-> files, deleted |-> {}, message |-> "none"]
        ELSE IF ~checkbox
        THEN [fs |-> files, deleted |-> {}, message |-> "warning"]
        ELSE IF targets \cap io.refused # {}
        THEN [fs |-> dict_del(files, reached), deleted |-> reached,
              message |-> "error"]
        ELSE [fs |-> dict_del(files, targets), deleted |-> targets,
              message |-> "success"]

(***************************************************************************)
(* The config store on its own: both panels' operators are logged in; the  *)
(* calls and buttons that read and write the config directories.           *)
(***************************************************************************)
LoggedInSession ==
    [k \in {<<system, "_admin_authenticated">> : system \in StoreSystems} |-> TRUE]

InitStore ==
    /\ session_state = LoggedInSession
    /\ secrets = [avail |-> FALSE, kv |-> EmptyDict]
    /\ failed = 0
    /\ last = [op |-> "init"]
    /\ fs = EmptyDict
    /\ inflight = EmptyDict
    /\ widgets = EmptyDict

\* Files an operator may upload to a panel's restore: what a backup produces
\* for the explored categories, with or without the payroll backup's system
\* tag and an entry for a category outside the fixed list.
Bundles(system) ==
    {json_encode(PyDict([k \in BackupTypes(system) \cup {"backup_timestamp"} \cup extra |->
        IF k = "backup_timestamp" THEN BackupTimestamp
        ELSE IF k = "system" THEN PyStr("payroll")
        ELSE IF k = MainType(system) THEN main
        ELSE IF k = "custom" THEN custom
        ELSE PyNone])) :
        main \in {PyNone, WageTypesDoc, EmptyDoc},
        custom \in {WageTypesDoc},
        extra \in SUBSET {"custom", "system"}}

\* The uploads that have the keys of the panel's own backup.
OwnBundles(system) ==
    {restore_file \in Bundles(system) :
        ("system" \in DOMAIN restore_file[2]) <=> (system = "payroll")}

\* What the operating system does to the writes of one restore: all complete,
\* or the write of one category cannot open its file.
RestoreIo(system) ==
    {[k \in BackupTypes(system) \cup {"custom", "system"} |->
        IF k = bad THEN "open_fails" ELSE "ok"] : bad \in {MainType(system), "none"}}

SaveConfig(system, config_type, config_data, io) ==
    LET r == save_config(system, config_type, config_data, io, fs)
    IN  /\ fs' = r.fs
        /\ last' = [op |-> "save", sys |-> system, type |-> config_type,
                    data |-> config_data,
                    prior |-> load_config(system, config_type, fs).ret,
                    failed |-> r.failed, raised |-> r.raised,
                    ret |-> r.ret, message |-> r.message]
        /\ UNCHANGED <<session_state, secrets, failed, inflight, widgets>>

LoadConfig(system, config_type) ==
    LET r == load_config(system, config_type, fs)
    IN  /\ last' = [op |-> "load", sys |-> system, type |-> config_type,
                    ret |-> r.ret, raised |-> r.raised, message |-> r.message]
        /\ UNCHANGED <<session_state, secrets, failed, fs, inflight, widgets>>

CreateBackup(system) ==
    /\ is_authenticated(create_admin(system), session_state)
    /\ last' = [op |-> "backup", sys |-> system, bundle |-> backup_json(system, fs)]
    /\ UNCHANGED <<session_state, secrets, failed, fs, inflight, widgets>>

RestoreConfiguration(system, restore_file, io) ==
    LET r == restore_config(system, restore_file, io, fs)
    IN  /\ is_authenticated(create_admin(system), session_state)
        /\ fs' = r.fs
        /\ last' = [op |-> "restore", sys |-> system, bundle |-> restore_file,
                    saved |-> r.saved, failed |-> r.failed,
                    warned |-> r.warned, message |-> r.message]
        /\ UNCHANGED <<session_state, secrets, failed, inflight, widgets>>

NextStore ==
    \/ \E system \in StoreSystems : \E config_type \in StoreTypes(system),
          config_data \in SavedDocs, io \in IoModes :
            SaveConfig(system, config_type, config_data, io)
    \/ \E system \in StoreSystems : \E config_type \in StoreTypes(system) :
            LoadConfig(system, config_type)
    \/ \E system \in StoreSystems : CreateBackup(system)
    \/ \E system \in StoreSystems : \E restore_file \in OwnBundles(system),
          io \in RestoreIo(system) :
            RestoreConfiguration(system, restore_file, io)

SpecStore == InitStore /\ [][NextStore]_vars

(***************************************************************************)
(* The restore on its own: complete saves fill the store, then any of the  *)
(* uploads, the other panel's backup included, is restored.                *)
(***************************************************************************)
NextRestore ==
    \/ \E system \in StoreSystems : \E config_type \in StoreTypes(system),
          config_data \in {WageTypesDoc, EmptyDoc} :
            SaveConfig(system, config_type, config_data, "ok")
    \/ \E system \in StoreSystems : \E restore_file \in Bundles(system),
          io \in RestoreIo(system) :
            RestoreConfiguration(system, restore_file, io)

SpecRestore == InitStore /\ [][NextRestore]_vars

(***************************************************************************)
(* Saves and restores with category names taken as they come: the plain    *)
(* ones and one holding path separators.                                   *)
(***************************************************************************)
\* A backup file with an entry for the category name with path separators.
TraversalBundle ==
    json_encode(PyDict([k \in {TraversalType, "backup_timestamp"} |->
        IF k = "backup_timestamp" THEN BackupTimestamp ELSE EmptyDoc]))

ConfineBundles(system) == OwnBundles(system) \cup {TraversalBundle}

ConfineIo(restore_file) == [k \in DOMAIN restore_file[2] |-> "ok"]

NextConfine ==
    \/ \E system \in StoreSystems :
         \E config_type \in StoreTypes(system) \cup {TraversalType},
            config_data \in {WageTypesDoc, EmptyDoc} :
              SaveConfig(system, config_type, config_data, "ok")
    \/ \E system \in StoreSystems : \E restore_file \in ConfineBundles(system) :
              RestoreConfiguration(system, restore_file, ConfineIo(restore_file))

SpecConfine == InitStore /\ [][NextConfine]_vars

\* The sessions of two operators on the same server.
Operators == {"operator1", "operator2"}

(***************************************************************************)
(* configure_wage_types: the wage type table and its "Add Wage Type" form  *)
(***************************************************************************)
WageType(name, category, taxable) ==
    PyDict([field \in {"name", "category", "taxable"} |->
        CASE field = "name" -> PyStr(name)
          [] field = "category" -> PyStr(category)
          [] field = "taxable" -> PyBool(taxable)])

get_default_wage_types ==
    PyDict([code \in {"1000", "1010", "1020", "2000", "2010",
                      "3000", "3010", "3020", "4000", "9000"} |->
        CASE code = "1000" -> WageType("Basic Pay", "regular", TRUE)
          [] code = "1010" -> WageType("Overtime Pay", "overtime", TRUE)
          [] code = "1020" -> WageType("Holiday Pay", "premium", TRUE)
          [] code = "2000" -> WageType("Health Insurance", "benefit", FALSE)
          [] code = "2010" -> WageType("Retirement Contribution", "benefit", FALSE)
          [] code = "3000" -> WageType("Federal Tax", "deduction", FALSE)
          [] code = "3010" -> WageType("State Tax", "deduction", FALSE)
          [] code = "3020" -> WageType("Social Security", "deduction", FALSE)
          [] code = "4000" -> WageType("Bonus", "bonus", TRUE)
          [] code = "9000" -> WageType("Other Pay", "other", TRUE)])

\* load_payroll_config("wage_types") or get_default_wage_types()
current_wage_types(files) ==
    LET loaded == load_config("payroll", "wage_types", files).ret
    IN  IF truthy(loaded) THEN loaded ELSE get_default_wage_types

\* The entry the form builds from its widgets; category, taxable and
\* description are left at what the form shows first.
new_wage_type(new_name) ==
    PyDict([field \in {"name", "category", "taxable", "description"} |->
        CASE field = "name" -> PyStr(new_name)
          [] field = "category" -> PyStr("regular")
          [] field = "taxable" -> PyBool(TRUE)
          [] field = "description" -> PyStr("")])

\* The "Add Wage Type" button's block, given the table the run loaded:
\* [fs, saved, save_failed, message, exit].
add_wage_type(current, new_code, new_name, io, files) ==
    IF new_code # "" /\ new_name # ""
    THEN LET r == save_config("payroll", "wage_types",
                      PyDict(dict_set(current[2], new_code, new_wage_type(new_name))),
                      io, files)
         IN  [fs |-> r.fs, saved |-> TRUE, save_failed |-> r.failed,
              message |-> "success", exit |-> "rerun"]
    ELSE [fs |-> files, saved |-> FALSE, save_failed |-> FALSE,
          message |-> "error", exit |-> "return"]

NewCodes == {"", "1000", "5000"}

NewNames == {"", "Commission Pay"}

\* One run of the wage type page started by a click on "Add Wage Type".
AddWageType(new_code, new_name, io) ==
    LET r == add_wage_type(current_wage_types(fs), new_code, new_name, io, fs)
    IN  /\ is_authenticated(create_admin("payroll"), session_state)
        /\ fs' = r.fs
        /\ last' = [op |-> "add_wage_type", code |-> new_code, name |-> new_name,
                    saved |-> r.saved, save_failed |-> r.save_failed,
                    message |-> r.message, exit |-> r.exit]
        /\ UNCHANGED <<session_state, secrets, failed, inflight, widgets>>

NextWageTypes ==
    \/ \E config_data \in {WageTypesDoc, EmptyDoc, get_default_wage_types},
          io \in {"ok", "open_fails"} :
            SaveConfig("payroll", "wage_types", config_data, io)
    \/ \E new_code \in NewCodes, new_name \in NewNames, io \in {"ok", "open_fails"} :
            AddWageType(new_code, new_name, io)

SpecWageTypes == InitStore /\ [][NextWageTypes]_vars

(***************************************************************************)
(* The protected operation passed to require_auth: the admin content of    *)
(* the system's panel, [ss, fs, exit].  The foundation and payroll panels  *)
(* carry the clear cache button; the payroll content also holds the wage   *)
(* type page, whose "Add Wage Type" and "Import Wage Types" buttons save   *)
(* the table and end the run in st.rerun(); the employee content only      *)
(* renders.                                                                *)
(***************************************************************************)
\* What the operator has in the wage type form and in the uploaded CSV (one
\* row with the three required columns) when clicking the content buttons.
FormCode == "5000"

FormName == "Commission Pay"

UploadedRows ==
    [code \in {FormCode} |->
        PyDict([field \in {"name", "category", "taxable", "description"} |->
            CASE field = "name" -> PyStr(FormName)
              [] field = "category" -> PyStr("regular")
              [] field = "taxable" -> PyBool(TRUE)
              [] field = "description" -> PyStr("")])]

\* The "Import Wage Types" button's block, given the table the run loaded and
\* the entries built from the rows: [fs, saved, save_failed, message, exit].
import_wage_types(current, rows, io, files) ==
    LET r == save_config("payroll", "wage_types",
                 PyDict([code \in DOMAIN current[2] \cup DOMAIN rows |->
                     IF code \in DOMAIN rows THEN rows[code] ELSE current[2][code]]),
                 io, files)
    IN  [fs |-> r.fs, saved |-> TRUE, save_failed |-> r.failed,
         message |-> "success", exit |-> "rerun"]

admin_function(self, click, ss, files) ==
    IF click = "clear_cache" /\ self.system_name \in {"foundation", "payroll"}
    THEN [ss |-> clear_session_cache(self.system_name, ss), fs |-> files,
          exit |-> "return"]
    ELSE IF click = "add_wage_type" /\ self.system_name = "payroll"
    THEN LET r == add_wage_type(current_wage_types(files), FormCode, FormName,
                                "ok", files)
         IN  [ss |-> ss, fs |-> r.fs, exit |-> r.exit]
    ELSE IF click = "import_wage_types" /\ self.system_name = "payroll"
    THEN LET r == import_wage_types(current_wage_types(files), UploadedRows,
                                    "ok", files)
         IN  [ss |-> ss, fs |-> r.fs, exit |-> r.exit]
    ELSE [ss |-> ss, fs |-> files, exit |-> "return"]

(***************************************************************************)
(* AdminAuth.require_auth: [exit, prompt, logout_shown, op_calls, ss, fs,  *)
(* attempt]                                                                *)
(***************************************************************************)
require_auth(self, click, password_input, ss, src, files) ==
    LET login == show_login_screen(self, click, password_input, ss, src)
        side == show_logout_sidebar(self, click, login.ss)
        op == admin_function(self, click, side.ss, files)
    IN  IF login.exit = "rerun" \/ ~login.ret
        THEN [exit |-> login.exit, prompt |-> login.prompt, logout_shown |-> FALSE,
              op_calls |-> 0, ss |-> login.ss, fs |-> files,
              attempt |-> login.attempt]
        ELSE IF side.exit = "rerun"
        THEN [exit |-> "rerun", prompt |-> login.prompt, logout_shown |-> side.shown,
              op_calls |-> 0, ss |-> side.ss, fs |-> files,
              attempt |-> login.attempt]
        ELSE [exit |-> op.exit, prompt |-> login.prompt, logout_shown |-> side.shown,
              op_calls |-> 1, ss |-> op.ss, fs |-> op.fs,
              attempt |-> login.attempt]

\* One script run of a page that wraps its content in require_auth.
RequireAuth(name, click, password_input) ==
    LET self == create_admin(name)
        r == require_auth(self, click, password_input, session_state, secrets, fs)
    IN  /\ r.attempt = "bad" => failed < MaxFailed
        /\ session_state' = r.ss
        /\ fs' = r.fs
        /\ failed' = IF r.attempt = "none" THEN failed ELSE count_attempt(r.attempt = "ok")
        /\ last' = [op |-> "require_auth", sys |-> name, click |-> click,
                    password |-> password_input,
                    began |-> is_authenticated(self, session_state),
                    prompt |-> r.prompt, logout_shown |-> r.logout_shown,
                    op_calls |-> r.op_calls, exit |-> r.exit]
        /\ UNCHANGED <<secrets, inflight, widgets>>

Next ==
    \/ \E name \in Systems : GetPassword(name)
    \/ \E name \in SystemNames : IsAuthenticated(name)
    \/ \E name \in SystemNames, password \in Passwords : Authenticate(name, password)
    \/ \E name \in SystemNames : Logout(name)
    \/ GetActiveAdminSessions
    \/ LogoutAllSystems
    \/ \E name \in Systems, click \in AuthClicks :
         \E password_input \in (IF click = "login" THEN Passwords ELSE {""}) :
            RequireAuth(name, click, password_input)

Spec == Init /\ [][Next]_vars

(***************************************************************************)
(* The gate on its own: script runs of the pages wrapped in require_auth,  *)
(* started by any widget of the gate or of the content.                    *)
(***************************************************************************)
NextGate ==
    \E name \in Systems, click \in Clicks :
        \E password_input \in (IF click = "login" THEN Passwords ELSE {""}) :
            RequireAuth(name, click, password_input)

SpecGate == Init /\ [][NextGate]_vars

(***************************************************************************)
(* Two operators saving at the same time.  save_*_config is                *)
(*     with open(config_path, 'w') as f: json.dump(config_data, f, indent=2)*)
(* open truncates the file; json.dump fills the file object's buffer,      *)
(* which is written at the end of the with block, at this writer's own     *)
(* offset 0, leaving in place whatever lies behind the bytes it writes.    *)
(***************************************************************************)
RECURSIVE Sum(_, _)
Sum(f, keys) ==
    IF keys = {} THEN 0
    ELSE LET k == CHOOSE key \in keys : TRUE
         IN  f[k] + Sum(f, keys \ {k})

\* len(json.dumps(value, indent=2)) for the value at the given nesting depth:
\* every item on a line of its own, indented by two spaces per level.
RECURSIVE json_len(_, _)
json_len(text, depth) ==
    CASE text[1] = "string" -> Len(text[2]) + 2
      [] text[1] = "literal" -> Len(text[2])
      [] text[1] = "object" ->
            IF DOMAIN text[2] = {} THEN 2
            ELSE LET items == [k \in DOMAIN text[2] |->
                                  1 + 2 * (depth + 1) + Len(k) + 4
                                    + json_len(text[2][k], depth + 1)]
                 IN  1 + Sum(items, DOMAIN items) + (Cardinality(DOMAIN items) - 1)
                       + 1 + 2 * depth + 1
      [] text[1] = "array" ->
            IF DOMAIN text[2] = {} THEN 2
            ELSE LET items == [i \in DOMAIN text[2] |->
                                  1 + 2 * (depth + 1)
                                    + json_len(text[2][i], depth + 1)]
                 IN  1 + Sum(items, DOMAIN items) + (Cardinality(DOMAIN items) - 1)
                       + 1 + 2 * depth + 1

\* The file right after open(path, 'w'): no bytes.
OpenedFile == [valid |-> FALSE, json |-> <<"empty", "">>]

\* A complete text followed by the tail of a longer text written before it.
OverwrittenFile(text, longer) == [valid |-> FALSE, json |-> <<"overwritten", <<text, longer>>>>]

\* The number of bytes of a file that complete writes produced.
file_size(file) ==
    CASE file.valid -> json_len(file.json, 0)
      [] file.json[1] = "empty" -> 0
      [] file.json[1] = "overwritten" -> json_len(file.json[2][2], 0)

\* The with block's exit: the buffered text goes to offset 0 of the file.
write_at_start(file, text) ==
    IF json_len(text, 0) >= file_size(file)
    THEN JsonFile(text)
    ELSE OverwrittenFile(text, IF file.valid THEN file.json ELSE file.json[2][2])

\* The second half of save_*_config for the call the operator has under way.
save_write(operator, running, files) ==
    LET call == running[operator]
        path == config_path(call.sys, call.type)
    IN  [fs |-> dict_set(files, path,
                         write_at_start(files[path], json_encode(call.data))),
         message |-> "success"]

SaveOpen(operator, system, config_type, config_data) ==
    /\ operator \notin DOMAIN inflight
    /\ fs' = dict_set(fs, config_path(system, config_type), OpenedFile)
    /\ inflight' = dict_set(inflight, operator,
                            [pc |-> "opened", sys |-> system, type |-> config_type,
                             data |-> config_data])
    /\ last' = [op |-> "save_open", who |-> operator, sys |-> system,
                type |-> config_type, data |-> config_data]
    /\ UNCHANGED <<session_state, secrets, failed, widgets>>

SaveWrite(operator) ==
    /\ operator \in DOMAIN inflight
    /\ inflight[operator].pc = "opened"
    /\ LET r == save_write(operator, inflight, fs)
       IN  /\ fs' = r.fs
           /\ last' = [op |-> "save_done", who |-> operator,
                       sys |-> inflight[operator].sys,
                       type |-> inflight[operator].type,
                       data |-> inflight[operator].data,
                       overlapped |-> DOMAIN inflight # {operator},
                       message |-> r.message]
    /\ inflight' = dict_del(inflight, {operator})
    /\ UNCHANGED <<session_state, secrets, failed, widgets>>

NextRace ==
    \/ \E operator \in Operators, system \in StoreSystems, config_data \in SerializableDocs :
            SaveOpen(operator, system, MainType(system), config_data)
    \/ \E operator \in Operators : SaveWrite(operator)
    \/ \E system \in StoreSystems : LoadConfig(system, MainType(system))

SpecRace == InitStore /\ [][NextRace]_vars

(***************************************************************************)
(* Two sessions on the wage type page.  Each run loads the table at the    *)
(* top of configure_wage_types and saves it in the button's block further  *)
(* down; the runs of different sessions are threads of one server, so the  *)
(* other session's load and save fall before, between or after the open    *)
(* and the write of save_payroll_config.                                   *)
(***************************************************************************)
\* The code each session adds.
SessionCodes(session) ==
    CASE session = "operator1" -> {"5000", "5002"}
      [] session = "operator2" -> {"5001", "5003"}

\* The button's block up to open(config_path, "w") inside save_payroll_config,
\* given the table the run loaded: the entry is set in the run's own table and
\* the file is emptied; [fs, call].
add_wage_type_open(current, new_code, new_name, files) ==
    [fs |-> dict_set(files, config_path("payroll", "wage_types"), OpenedFile),
     call |-> [sys |-> "payroll", type |-> "wage_types",
               data |-> PyDict(dict_set(current[2], new_code,
                                        new_wage_type(new_name)))]]

\* The top of configure_wage_types in a run started by the button's click.
WageTypesLoad(session) ==
    /\ dict_get(inflight, session, [pc |-> "idle"]).pc \in {"idle", "added"}
    /\ inflight' = dict_set(inflight, session,
                            [pc |-> "loaded", current |-> current_wage_types(fs)])
    /\ last' = [op |-> "wage_types_load", who |-> session,
                message |-> load_config("payroll", "wage_types", fs).message]
    /\ UNCHANGED <<session_state, secrets, failed, fs, widgets>>

\* The button's block of the same run, up to the open of the save.
WageTypesAddOpen(session, new_code) ==
    /\ session \in DOMAIN inflight
    /\ inflight[session].pc = "loaded"
    /\ LET r == add_wage_type_open(inflight[session].current, new_code,
                                   "Commission Pay", fs)
       IN  /\ fs' = r.fs
           /\ inflight' = dict_set(inflight, session,
                                   [pc |-> "opened", code |-> new_code,
                                    sys |-> r.call.sys, type |-> r.call.type,
                                    data |-> r.call.data])
    /\ last' = [op |-> "wage_types_add_open", who |-> session, code |-> new_code]
    /\ UNCHANGED <<session_state, secrets, failed, widgets>>

\* The rest of the block: json.dump and the end of the with block.
WageTypesAddWrite(session) ==
    /\ session \in DOMAIN inflight
    /\ inflight[session].pc = "opened"
    /\ LET r == save_write(session, inflight, fs)
       IN  /\ fs' = r.fs
           /\ last' = [op |-> "wage_types_add", who |-> session,
                       code |-> inflight[session].code,
                       saved |-> TRUE, message |-> r.message]
    /\ inflight' = dict_set(inflight, session,
                            [pc |-> "added", code |-> inflight[session].code])
    /\ UNCHANGED <<session_state, secrets, failed, widgets>>

NextWageRace ==
    \/ \E session \in Operators : WageTypesLoad(session)
    \/ \E session \in Operators : \E new_code \in SessionCodes(session) :
            WageTypesAddOpen(session, new_code)
    \/ \E session \in Operators : WageTypesAddWrite(session)

\* No stored table yet, or a table of one wage type.
InitWageRace ==
    /\ session_state = LoggedInSession
    /\ secrets = [avail |-> FALSE, kv |-> EmptyDict]
    /\ failed = 0
    /\ last = [op |-> "init"]
    /\ fs \in {EmptyDict,
               dict_set(EmptyDict, config_path("payroll", "wage_types"),
                        JsonFile(json_encode(WageTypesDoc)))}
    /\ inflight = EmptyDict
    /\ widgets = EmptyDict

SpecWageRace == InitWageRace /\ [][NextWageRace]_vars

(***************************************************************************)
(* The reset as the browser drives it.  Every interaction with a widget    *)
(* starts a script run.  st.button reads True only in the run its click    *)
(* started; st.checkbox reads the value the browser holds for it, False    *)
(* when it holds none; the browser keeps the value of a widget only while  *)
(* the script run calls the widget.  The checkbox is called inside the     *)
(* button's if block, so it is on the page only after a run in which the   *)
(* button read True.  A script run renders one panel (app.py picks it by   *)
(* demo_page), so after a run the page holds that panel's widgets only.    *)
(***************************************************************************)
reset_checkbox(system) == <<system, "reset_confirm">>

\* One run of the panel: [fs, widgets, button, checkbox, deleted, message].
\* clicked: the run was started by a click on the reset button; ticked: it was
\* started by ticking the confirmation checkbox.
panel_run(system, clicked, ticked, shown, files) ==
    LET held == IF ticked THEN dict_set(shown, reset_checkbox(system), TRUE)
                ELSE shown
        button == clicked
        checkbox == button /\ dict_get(held, reset_checkbox(system), FALSE)
        r == reset_configuration(system, button, checkbox, NoRefusal, files)
    IN  [fs |-> r.fs,
         widgets |-> IF button
                     THEN dict_set(EmptyDict, reset_checkbox(system), checkbox)
                     ELSE EmptyDict,
         button |-> button, checkbox |-> checkbox,
         deleted |-> r.deleted, message |-> r.message]

PanelRun(system, event) ==
    LET r == panel_run(system, event = "click_reset", event = "tick_confirm",
                       widgets, fs)
    IN  /\ is_authenticated(create_admin(system), session_state)
        /\ event = "tick_confirm" => reset_checkbox(system) \in DOMAIN widgets
        /\ fs' = r.fs
        /\ widgets' = r.widgets
        /\ last' = [op |-> "panel_run", sys |-> system, event |-> event,
                    button |-> r.button, checkbox |-> r.checkbox,
                    deleted |-> r.deleted, message |-> r.message]
        /\ UNCHANGED <<session_state, secrets, failed, inflight>>

PanelEvents == {"click_reset", "tick_confirm", "other"}

\* Stores in which both panels hold documents, as complete saves leave them.
FilledStores ==
    {[path \in {config_path(system, config_type) :
                    system \in StoreSystems, config_type \in {"validation_rules", "custom"}} |->
         JsonFile(json_encode(docs[path[1]][path[2][1]]))] :
        docs \in [{CONFIG_DIR(system) : system \in StoreSystems} ->
                    [{"validation_rules", "custom"} -> SerializableDocs]]}

InitResetUi ==
    /\ session_state = LoggedInSession
    /\ secrets = [avail |-> FALSE, kv |-> EmptyDict]
    /\ failed = 0
    /\ last = [op |-> "init"]
    /\ fs \in FilledStores
    /\ inflight = EmptyDict
    /\ widgets = EmptyDict

NextResetUi ==
    \E system \in StoreSystems, event \in PanelEvents : PanelRun(system, event)

\* The operator keeps interacting with the page.
SpecResetUi == InitResetUi /\ [][NextResetUi]_vars /\ WF_vars(NextResetUi)

(***************************************************************************)
(* src/employee_data_wrapper.py: the employee page, its quick status and   *)
(* session reset, and get_employee_system_status.  EMPLOYEE_DATA_AVAILABLE *)
(* is passed in as available; the panels that fill employee_state are      *)
(* imported modules.                                                       *)
(***************************************************************************)
PaFiles == {"PA0001", "PA0002", "PA0006", "PA0105"}

source_key(file_key) == <<"source_", lower(file_key)>>

\* The uploaded table of a PA file.
DataFrame(file_key) == <<"DataFrame", file_key>>

\* sum(1 for file_key in [...] if employee_state.get(f'source_...') is not None)
pa_files_loaded(employee_state) ==
    Cardinality({file_key \in PaFiles :
        dict_get(employee_state, source_key(file_key), PyNone) # PyNone})

\* The button in the except block around the selected panel.
reset_employee_session == <<"employee", "reset_employee_session">>

\* The panels are imported modules: a call of the selected one returns or
\* raises.
PanelOutcomes == {"returns", "raises"}

\* One run of render_employee_data_management.  panel: what the call of the
\* selected panel does; clicked: the run was started by a click on "Reset
\* Employee Session".  The quick status is drawn before the panel is called;
\* when the panel raises, the except block puts the button on the page, and
\* the button reading True deletes employee_state and ends the run in
\* st.rerun(): [ss, shown, pa_files, status, tip, reset_button, rerun].
render_employee_data_management(available, panel, clicked, ss) ==
    IF ~available
    THEN [ss |-> ss, shown |-> FALSE, pa_files |-> <<0, "/4">>,
          status |-> "none", tip |-> FALSE, reset_button |-> FALSE,
          rerun |-> FALSE]
    ELSE LET ss1 == IF "employee_state" \in DOMAIN ss THEN ss
                    ELSE dict_set(ss, "employee_state", EmptyDict)
             employee_state == ss1["employee_state"]
             loaded == pa_files_loaded(employee_state)
             raised == panel = "raises"
             button == raised /\ clicked
         IN  [ss |-> IF button THEN dict_del(ss1, {"employee_state"}) ELSE ss1,
              shown |-> TRUE, pa_files |-> <<loaded, "/4">>,
              status |-> IF loaded >= 2 THEN "Ready" ELSE "Waiting",
              tip |-> loaded < 2, reset_button |-> raised, rerun |-> button]

\* get_employee_system_status: the dict it returns.
get_employee_system_status(available, ss) ==
    IF ~available
    THEN [available |-> FALSE, error |-> "Modules not loaded"]
    ELSE IF "employee_state" \notin DOMAIN ss
    THEN [available |-> TRUE, initialized |-> FALSE]
    ELSE LET employee_state == ss["employee_state"]
             loaded == pa_files_loaded(employee_state)
         IN  [available |-> TRUE, initialized |-> TRUE,
              pa_files_loaded |-> loaded,
              ready_to_process |-> loaded >= 2,
              output_generated |->
                  dict_get(employee_state, <<"generated_employee_files", "">>, FALSE)]

\* The employee states the panels can leave behind: each PA file not yet
\* touched, cleared (None) or uploaded; output generated or not.
EmployeeStates ==
    {[k \in {source_key(file_key) : file_key \in touched} \cup flag |->
        IF k = <<"generated_employee_files", "">> THEN TRUE
        ELSE IF \E file_key \in uploaded : k = source_key(file_key)
        THEN DataFrame(k[2]) ELSE PyNone] :
        touched \in SUBSET PaFiles, uploaded \in SUBSET PaFiles,
        flag \in {{}, {<<"generated_employee_files", "">>}}}

InitEmployee ==
    /\ session_state \in {EmptyDict}
          \cup {[k \in {"employee_state"} |-> es] : es \in EmployeeStates}
    /\ secrets = [avail |-> FALSE, kv |-> EmptyDict]
    /\ failed = 0
    /\ last = [op |-> "init"]
    /\ fs = EmptyDict
    /\ inflight = EmptyDict
    /\ widgets = EmptyDict

\* A script run of the employee page.  event: what started it ("rerun": the
\* st.rerun() of the run before).  The button can be clicked only while it is
\* on the page; a run keeps on the page the widgets it calls.
EmployeeEvents == {"click_reset", "rerun", "other"}

RenderEmployeeDataManagement(available, panel, event) ==
    LET r == render_employee_data_management(available, panel,
                                             event = "click_reset", session_state)
    IN  /\ (event = "rerun") <=> ("employee" \in DOMAIN inflight)
        /\ event = "click_reset" => reset_employee_session \in DOMAIN widgets
        /\ session_state' = r.ss
        /\ widgets' = IF r.reset_button
                      THEN dict_set(EmptyDict, reset_employee_session, FALSE)
                      ELSE EmptyDict
        /\ inflight' = IF r.rerun
                       THEN dict_set(EmptyDict, "employee", [pc |-> "rerun"])
                       ELSE EmptyDict
        /\ last' = [op |-> "render_employee_data_management", available |-> available,
                    panel |-> panel, event |-> event,
                    shown |-> r.shown, pa_files |-> r.pa_files,
                    status |-> r.status, tip |-> r.tip,
                    reset_button |-> r.reset_button, rerun |-> r.rerun]
        /\ UNCHANGED <<secrets, failed, fs>>

GetEmployeeSystemStatus(available) ==
    /\ last' = [op |-> "get_employee_system_status", available |-> available,
                ret |-> get_employee_system_status(available, session_state)]
    /\ UNCHANGED <<session_state, secrets, failed, fs, inflight, widgets>>

NextEmployee ==
    \/ \E available \in BOOLEAN, panel \in PanelOutcomes, event \in EmployeeEvents :
            RenderEmployeeDataManagement(available, panel, event)
    \/ \E available \in BOOLEAN : GetEmployeeSystemStatus(available)

SpecEmployee == InitEmployee /\ [][NextEmployee]_vars

(***************************************************************************)
(* Properties of the session gate                                          *)
(***************************************************************************)
\* resolveCredential(S) in the current secret configuration.
Resolved(name) == get_password(create_admin(name), secrets).val

\* isAuthenticated(S) in the current session.
IsAuth(name) == is_authenticated(create_admin(name), session_state)

\* The subsystem an AdminAuth built from a name stands for.
SubsystemOf(name) == IF name = "Payroll" THEN "payroll" ELSE name

AllFalse == [system \in Systems |-> FALSE]

\* C1: for every subsystem and in every reachable session state, whatever the
\* number of failed attempts so far, authenticating with the resolved
\* credential returns true and the subsystem is authenticated afterwards.
C1_CorrectCredentialAuthenticates ==
    /\ \A name \in SystemNames :
         LET self == create_admin(name)
             r == authenticate(self, Resolved(name), session_state, secrets)
         IN  ~r.raised /\ r.ret = TRUE /\ is_authenticated(self, r.ss)
    /\ (last.op = "authenticate" /\ last.password = Resolved(last.sys))
         => (last.ret = TRUE /\ ~last.raised /\ IsAuth(last.sys))

\* A correct attempt succeeded after MaxFailed failed attempts in the session.
C1_Witness ==
    /\ last.op = "authenticate"
    /\ last.password = Resolved(last.sys)
    /\ last.ret = TRUE
    /\ failed = MaxFailed
    /\ IsAuth(last.sys)

\* C2: an authenticate call with a secret other than the resolved credential
\* returns false without raising and leaves every authentication flag, the
\* subsystem's own included, as it was.
C2_WrongSecretRejected ==
    [][(last'.op = "authenticate" /\ last'.password # Resolved(last'.sys))
         => /\ last'.ret = FALSE
            /\ ~last'.raised
            /\ \A name \in SystemNames :
                 is_authenticated(create_admin(name), session_state') = IsAuth(name)]_vars

\* A wrong secret was rejected while the subsystem was logged in.
C2_Witness ==
    /\ last.op = "authenticate"
    /\ last.password # Resolved(last.sys)
    /\ last.ret = FALSE
    /\ IsAuth(last.sys)

\* C3: while no session key has been written, no subsystem is authenticated
\* and get_active_admin_sessions() maps every subsystem to false.
C3_InitiallyLoggedOut ==
    /\ (DOMAIN session_state = {})
         => /\ \A name \in SystemNames : ~IsAuth(name)
            /\ get_active_admin_sessions(session_state) = AllFalse
    /\ (DOMAIN session_state = {} /\ last.op = "is_authenticated")
         => last.ret = FALSE
    /\ (DOMAIN session_state = {} /\ last.op = "get_active_admin_sessions")
         => last.ret = AllFalse

\* The sessions were listed before any session key was written.
C3_Witness ==
    /\ DOMAIN session_state = {}
    /\ last.op = "get_active_admin_sessions"
    /\ last.ret = AllFalse

\* C4: after logout(S) the subsystem is not authenticated, from every prior
\* state, and a second logout(S) gives the session state of the first.
C4_LogoutIdempotent ==
    /\ last.op = "logout" => ~IsAuth(last.sys)
    /\ \A name \in SystemNames :
         LET self == create_admin(name)
             once == logout(self, session_state)
         IN  /\ ~is_authenticated(self, once)
             /\ logout(self, once) = once

\* A logout of foundation was made while payroll stayed logged in.
C4_Witness ==
    /\ last.op = "logout"
    /\ last.sys = "foundation"
    /\ ~IsAuth("foundation")
    /\ IsAuth("payroll")

\* C5: after logout_all_systems() the session listing is false for every
\* subsystem, and in every state the listing's value for a subsystem is
\* is_authenticated() of an AdminAuth built from any casing of its name.
C5_LogoutAllAndListingAgree ==
    /\ last.op = "logout_all_systems"
         => get_active_admin_sessions(session_state) = AllFalse
    /\ get_active_admin_sessions(logout_all_systems(session_state)) = AllFalse
    /\ \A name \in SystemNames :
         get_active_admin_sessions(session_state)[SubsystemOf(name)] = IsAuth(name)

\* All three subsystems were logged in when logout_all_systems() ran.
C5_Witness ==
    /\ last.op = "logout_all_systems"
    /\ last.before = [system \in Systems |-> TRUE]
    /\ get_active_admin_sessions(session_state) = AllFalse

\* C6: an authenticate or logout call on subsystem A, successful or not,
\* leaves the authentication flag of every other subsystem B unchanged.
C6_NoCrossSubsystemLeakage ==
    [][last'.op \in {"authenticate", "logout"}
         => \A B \in Systems :
              B # SubsystemOf(last'.sys)
                => is_authenticated(create_admin(B), session_state') = IsAuth(B)]_vars

\* Employee logged in with a credential that foundation also resolves to,
\* and foundation is still logged out.
C6_Witness ==
    /\ last.op = "authenticate"
    /\ last.sys = "employee"
    /\ last.ret = TRUE
    /\ Resolved("foundation") = Resolved("employee")
    /\ ~IsAuth("foundation")

\* The credential the documented order gives: the subsystem secret if
\* present, otherwise the master secret if present, otherwise the default.
DocumentedCredential(name) ==
    LET key == <<SubsystemOf(name), "_admin_password">>
    IN  IF secrets.avail /\ key \in DOMAIN secrets.kv THEN secrets.kv[key]
        ELSE IF secrets.avail /\ MasterKey \in DOMAIN secrets.kv THEN secrets.kv[MasterKey]
        ELSE DefaultPassword

\* C7: get_password returns the subsystem secret if present, otherwise the
\* master secret if present, otherwise the default.
C7_ResolutionOrder ==
    last.op = "get_password"
        => (~last.raised /\ last.ret = DocumentedCredential(last.sys))

\* C8: get_password never raises; when the secret source is unavailable it
\* ends at the default, and with no secret configured anywhere the
\* foundation credential is "admin123" and authenticates.
C8_ResolutionNeverRaises ==
    /\ \A name \in Systems :
         LET r == get_password(create_admin(name), secrets)
         IN  /\ ~r.raised
             /\ ~secrets.avail => r.val = DefaultPassword
    /\ last.op = "get_password" => ~last.raised
    /\ (DOMAIN secrets.kv = {})
         => /\ Resolved("foundation") = "admin123"
            /\ authenticate(create_admin("foundation"), "admin123",
                            session_state, secrets).ret = TRUE
    /\ (DOMAIN secrets.kv = {} /\ last.op = "authenticate"
          /\ last.sys = "foundation" /\ last.password = "admin123")
         => (last.ret = TRUE /\ ~last.raised)

\* With the secret source unavailable, foundation authenticated with "admin123".
C8_Witness ==
    /\ ~secrets.avail
    /\ last.op = "authenticate"
    /\ last.sys = "foundation"
    /\ last.password = "admin123"
    /\ last.ret = TRUE
    /\ IsAuth("foundation")

\* C9: when master_admin_password is set, authenticating with it succeeds
\* for every subsystem whose own key is not configured.
C9_MasterPasswordWorks ==
    (/\ last.op = "authenticate"
     /\ secrets.avail
     /\ MasterKey \in DOMAIN secrets.kv
     /\ <<SubsystemOf(last.sys), "_admin_password">> \notin DOMAIN secrets.kv
     /\ last.password = secrets.kv[MasterKey])
        => last.ret = TRUE

\* C10: a require_auth run that began unauthenticated never runs the
\* protected operation, also when the correct password is submitted in it;
\* it shows the credential prompt and no logout affordance.
C10_NoOperationWhenUnauthenticated ==
    (last.op = "require_auth" /\ ~last.began)
        => /\ last.op_calls = 0
           /\ last.prompt = TRUE
           /\ last.logout_shown = FALSE
           /\ last.exit \in {"return", "rerun"}

\* The correct password was submitted in a run that began unauthenticated.
C10_Witness ==
    /\ last.op = "require_auth"
    /\ ~last.began
    /\ last.click = "login"
    /\ last.password = Resolved(last.sys)
    /\ IsAuth(last.sys)
    /\ last.op_calls = 0

\* C11 as stated: every require_auth run that began authenticated runs the
\* protected operation exactly once and shows the logout affordance, whatever
\* widget triggered the run.
C11_OperationOnceWhenAuthenticated ==
    (last.op = "require_auth" /\ last.began)
        => (last.op_calls = 1 /\ last.logout_shown = TRUE)

\* C11 amended: a require_auth run that began authenticated shows the logout
\* affordance and no prompt; it runs the protected operation exactly once,
\* unless the run was triggered by the sidebar logout button: then the
\* subsystem is logged out, the operation is not run and st.rerun() ends the
\* run.
C11_OperationOnceUnlessLogout ==
    (last.op = "require_auth" /\ last.began)
        => /\ last.logout_shown = TRUE
           /\ last.prompt = FALSE
           /\ last.click # "logout" => last.op_calls = 1
           /\ last.click = "logout"
                => (last.op_calls = 0 /\ last.exit = "rerun" /\ ~IsAuth(last.sys))

\* A run that began authenticated was triggered by the sidebar logout button.
C11_Witness ==
    /\ last.op = "require_auth"
    /\ last.began
    /\ last.click = "logout"
    /\ last.logout_shown = TRUE
    /\ last.op_calls = 0
    /\ ~IsAuth(last.sys)

\* C12: a subsystem's flag goes from false to true only by a successful
\* authenticate of that subsystem (called directly or by the login button),
\* and from true to false only by its logout (called directly or by the
\* sidebar button) or by logout_all_systems; no other action changes it.
C12_StateMachine ==
    [][\A S \in Systems :
         /\ (~IsAuth(S) /\ is_authenticated(create_admin(S), session_state'))
              => \/ /\ last'.op = "authenticate"
                    /\ SubsystemOf(last'.sys) = S
                    /\ last'.ret = TRUE
                 \/ /\ last'.op = "require_auth"
                    /\ last'.sys = S
                    /\ last'.click = "login"
         /\ (IsAuth(S) /\ ~is_authenticated(create_admin(S), session_state'))
              => \/ last'.op = "logout" /\ SubsystemOf(last'.sys) = S
                 \/ last'.op = "logout_all_systems"
                 \/ /\ last'.op = "require_auth"
                    /\ last'.sys = S
                    /\ last'.click = "logout"]_vars

(***************************************************************************)
(* Properties of the config store                                          *)
(***************************************************************************)
\* The categories a subsystem can hold a document for in the explored runs.
Categories(system) == BackupTypes(system) \cup StoreTypes(system)

Stored(system, config_type) == config_path(system, config_type) \in DOMAIN fs

\* C13: for every subsystem S, category T and JSON-serializable document D,
\* save(S, T, D) then load(S, T) returns a document equal to D whatever was
\* stored for (S, T) before; nothing of the prior document is merged in.
C13_RoundTripReplaces ==
    /\ \A system \in StoreSystems : \A config_type \in Categories(system),
          config_data \in SerializableDocs :
            LET r == save_config(system, config_type, config_data, "ok", fs)
            IN  /\ ~r.failed
                /\ load_config(system, config_type, r.fs).ret = config_data
    /\ (last.op = "save" /\ ~last.failed)
          => load_config(last.sys, last.type, fs).ret = last.data

\* The empty mapping was saved over a stored wage type table.
C13_Witness ==
    /\ last.op = "save"
    /\ ~last.failed
    /\ last.prior = WageTypesDoc
    /\ last.data = EmptyDoc
    /\ load_config(last.sys, last.type, fs).ret = EmptyDoc

\* C14: load(S, T) returns Absent exactly when no document is stored for
\* (S, T); a stored empty mapping loads as the empty mapping, not as Absent.
C14_AbsentIffNoDocument ==
    \A system \in StoreSystems : \A config_type \in Categories(system) :
        /\ (load_config(system, config_type, fs).ret = PyNone)
              <=> ~Stored(system, config_type)
        /\ (last.op = "save" /\ ~last.failed /\ last.data = EmptyDoc)
              => load_config(last.sys, last.type, fs).ret = EmptyDoc

\* C15: a save whose write cannot complete fails visibly to its caller, and
\* no caller reports success for a save that failed.
C15_FailedSaveVisible ==
    /\ (last.op = "save" /\ last.failed) => last.raised
    /\ (last.op = "restore" /\ last.failed # {}) => last.message # "success"

\* C16: when the stored content for (S, T) is not valid JSON, what load(S, T)
\* gives its caller is distinct from Absent.
C16_CorruptDistinctFromAbsent ==
    \A system \in StoreSystems : \A config_type \in Categories(system) :
        (Stored(system, config_type) /\ ~fs[config_path(system, config_type)].valid)
            => LET r == load_config(system, config_type, fs)
               IN  r.raised \/ r.ret # PyNone

\* C17: if save(S, T, D) fails at any step, a subsequent load(S, T) still
\* returns the document stored before the call, or Absent if there was none.
C17_FailedSaveKeepsPrior ==
    (last.op = "save" /\ last.failed)
        => load_config(last.sys, last.type, fs).ret = last.prior

\* C18: in every reachable store, when the reset of S (button and checkbox
\* both read True) completes without error, load(S, T) returns Absent for
\* every category T of S, no *.json file is left in S's directory, and every
\* document of every other subsystem is unchanged.
C18_ResetClearsOwnOnly ==
    \A system \in StoreSystems : \A io \in ResetIo(system, fs) :
        LET r == reset_configuration(system, TRUE, TRUE, io, fs)
        IN  r.message = "success"
                => /\ \A config_type \in Categories(system) :
                          load_config(system, config_type, r.fs).ret = PyNone
                   /\ glob_json(system, r.fs) = {}
                   /\ \A path \in DOMAIN fs :
                          path[1] # CONFIG_DIR(system)
                              => path \in DOMAIN r.fs /\ r.fs[path] = fs[path]

\* Both subsystems hold a readable document and the reset of one of them
\* completes: its documents are removed.
C18_Witness ==
    \E system \in StoreSystems :
        LET r == reset_configuration(system, TRUE, TRUE, NoRefusal, fs)
        IN  /\ \E config_type \in Categories(system) :
                   load_config(system, config_type, fs).ret # PyNone
            /\ \E path \in DOMAIN fs :
                   path[1] # CONFIG_DIR(system) /\ fs[path].valid
            /\ r.message = "success"
            /\ r.deleted = glob_json(system, fs)
            /\ r.deleted # {}

\* C19: the reset operation deletes no document unless, in the same run, the
\* button reads pressed and the checkbox reads ticked; a click on the button
\* alone deletes nothing.
C19_TwoStepConfirmation ==
    [][(last'.op = "panel_run" /\ ~(last'.button /\ last'.checkbox))
        => fs' = fs /\ last'.deleted = {}]_vars

\* The button alone was clicked while documents were stored: the warning and
\* the checkbox are shown, the documents remain.
C19_Witness ==
    /\ last.op = "panel_run"
    /\ last.event = "click_reset"
    /\ last.button
    /\ ~last.checkbox
    /\ last.message = "warning"
    /\ reset_checkbox(last.sys) \in DOMAIN widgets
    /\ glob_json(last.sys, fs) # {}

\* C20: in every reachable store state of S, backup(S), then the reset of S,
\* then restore(S, bundle) leaves load(S, T) equal to its value before the
\* reset for every category T that had a document at backup time.
C20_BackupResetRestore ==
    \A system \in StoreSystems :
        LET bundle == backup_json(system, fs)
            cleared == reset_configuration(system, TRUE, TRUE, NoRefusal, fs).fs
            restored == restore_config(system, bundle,
                            [k \in DOMAIN bundle[2] |-> "ok"], cleared).fs
        IN  \A config_type \in Categories(system) :
                Stored(system, config_type)
                    => load_config(system, config_type, restored).ret
                         = load_config(system, config_type, fs).ret

\* The entries of the file uploaded to the last restore.
LastBundle == json_decode(last.bundle)[2]

\* The files other than those of the given categories of a subsystem are the
\* same in both stores.
SameExcept(files, after, system, keys) ==
    \A path \in DOMAIN files \cup DOMAIN after :
        path \notin {config_path(system, k) : k \in keys}
            => /\ path \in DOMAIN files
               /\ path \in DOMAIN after
               /\ after[path] = files[path]

\* C21 as stated: restore(S, bundle) calls save exactly for the bundle entries
\* whose value is non-empty and whose key is not backup_timestamp, and leaves
\* every other document unchanged.
C21_RestoreSavesAllButTimestamp ==
    [][last'.op = "restore"
        => LET b == json_decode(last'.bundle)[2]
               expected == {k \in DOMAIN b : k # "backup_timestamp" /\ truthy(b[k])}
           IN  /\ last'.saved = expected
               /\ SameExcept(fs, fs', last'.sys, expected)]_vars

\* C21 amended: restore(S, bundle) calls save exactly for the bundle entries
\* whose value is non-empty and whose key is not one the panel of S skips
\* (backup_timestamp; for payroll also system), unknown categories included;
\* each such save that completes stores the entry's value, and every other
\* document is unchanged.
C21_RestoreSavesNonReserved ==
    [][last'.op = "restore"
        => LET b == json_decode(last'.bundle)[2]
               skipped == IF last'.sys = "payroll"
                          THEN {"backup_timestamp", "system"}
                          ELSE {"backup_timestamp"}
               expected == {k \in DOMAIN b : k \notin skipped /\ truthy(b[k])}
           IN  /\ last'.saved = expected
               /\ \A k \in expected \ last'.failed :
                      load_config(last'.sys, k, fs').ret = b[k]
               /\ SameExcept(fs, fs', last'.sys, expected)]_vars

\* A payroll restore of a tagged bundle with an unknown category and an empty
\* wage type table, while a wage type table is stored: the unknown category is
\* saved, the stored table stays.
C21_Witness ==
    /\ last.op = "restore"
    /\ last.sys = "payroll"
    /\ "system" \in DOMAIN LastBundle
    /\ LastBundle["wage_types"] = EmptyDoc
    /\ last.saved = {"custom"}
    /\ last.failed = {}
    /\ load_config("payroll", "custom", fs).ret = WageTypesDoc
    /\ load_config("payroll", "wage_types", fs).ret = WageTypesDoc

\* C22: if the save of one bundle entry fails during restore(S, bundle), save
\* is still attempted for every other non-empty, non-reserved entry, and each
\* of those that succeeds is loadable afterwards.
C22_BestEffortRestore ==
    (last.op = "restore" /\ last.failed # {})
        => /\ last.saved = {k \in DOMAIN LastBundle :
                               k \notin ReservedKeys(last.sys) /\ truthy(LastBundle[k])}
           /\ \A k \in last.saved \ last.failed :
                  load_config(last.sys, k, fs).ret = LastBundle[k]

\* One entry's save failed and another entry of the same restore is stored.
C22_Witness ==
    /\ last.op = "restore"
    /\ last.failed = {MainType(last.sys)}
    /\ "custom" \in last.saved
    /\ load_config(last.sys, "custom", fs).ret = LastBundle["custom"]
    /\ load_config(last.sys, MainType(last.sys), fs).ret # LastBundle[MainType(last.sys)]

\* C26: no restore, of either panel and for any bundle, creates or overwrites
\* a document for the key backup_timestamp or the key system.
C26_ReservedKeysNeverStored ==
    /\ \A system \in StoreSystems : \A k \in {"backup_timestamp", "system"} :
           ~Stored(system, k)
    /\ last.op = "restore" => last.saved \cap {"backup_timestamp", "system"} = {}

\* C23: when two operators' saves of D1 and D2 on the same (S, T) overlap and
\* both complete, load(S, T) returns the document of the save that completed
\* last, in full, and neither caller is told of the conflict.
C23_LastWriterWins ==
    (last.op = "save_done" /\ inflight = EmptyDict)
        => /\ load_config(last.sys, last.type, fs).ret = last.data
           /\ last.message = "success"

\* C24: after the correct password is submitted on S's login screen, the next
\* invocation of require_auth(S, op) invokes op without showing the prompt,
\* and every later invocation keeps doing so until logout(S) or logoutAll().
C24_LoginThenContent ==
    [][\A name \in Systems :
        LET self == create_admin(name)
            next_run == require_auth(self, "none", "", session_state', secrets', fs')
        IN  /\ (/\ last'.op = "require_auth"
                /\ last'.sys = name
                /\ ~last'.began
                /\ last'.click = "login"
                /\ last'.password = get_password(self, secrets).val)
                   => next_run.op_calls = 1 /\ ~next_run.prompt
            /\ (/\ is_authenticated(self, session_state)
                /\ last'.op \notin {"logout", "logout_all_systems"}
                /\ ~(last'.op = "require_auth" /\ last'.click = "logout"))
                   => next_run.op_calls = 1 /\ ~next_run.prompt]_vars

\* C25: an authenticated operator who clicks the reset button and then ticks
\* the confirmation checkbox eventually reaches a state in which every
\* document of the subsystem's config directory has been deleted.
C25_ResetAchievable ==
    \A system \in StoreSystems :
        (/\ last.op = "panel_run"
         /\ last.sys = system
         /\ last.event = "tick_confirm")
            ~> (glob_json(system, fs) = {})

\* C27: for every string config_type accepted by save or appearing as a bundle
\* key in restore, a save or restore on S creates or modifies files only
\* inside S's own config directory.
C27_WritesConfined ==
    [][last'.op \in {"save", "restore"}
        => \A path \in DOMAIN fs \cup DOMAIN fs' :
               path[1] # CONFIG_DIR(last'.sys)
                   => /\ path \in DOMAIN fs
                      /\ path \in DOMAIN fs'
                      /\ fs'[path] = fs[path]]_vars

\* The stored wage type table.
StoredWageTypes(files) == load_config("payroll", "wage_types", files).ret

\* C28: adding a wage type with non-empty code and name leaves the stored
\* wage_types document equal to the previously stored document (the defaults
\* only if none was ever saved) with the entry of the code set to the new
\* fields; with an empty code or name nothing is saved.
C28_AddWageType ==
    [][last'.op = "add_wage_type"
        => IF last'.code # "" /\ last'.name # ""
           THEN LET base == IF Stored("payroll", "wage_types")
                            THEN StoredWageTypes(fs)
                            ELSE get_default_wage_types
                IN  /\ StoredWageTypes(fs')[1] = "dict"
                    /\ StoredWageTypes(fs')
                         = PyDict(dict_set(base[2], last'.code, new_wage_type(last'.name)))
           ELSE fs' = fs /\ ~last'.saved]_vars

\* C29: when two sessions have each added a distinct wage type code, the
\* stored wage_types document contains both codes, however their loads and
\* saves interleaved.
C29_NoLostUpdate ==
    (\A session \in Operators :
        session \in DOMAIN inflight /\ inflight[session].pc = "added")
        => /\ StoredWageTypes(fs)[1] = "dict"
           /\ \A session \in Operators :
                  inflight[session].code \in DOMAIN StoredWageTypes(fs)[2]

\* The PA files the employee state holds a table for.
LoadedPaFiles ==
    IF "employee_state" \in DOMAIN session_state
    THEN {file_key \in PaFiles :
             dict_get(session_state["employee_state"], source_key(file_key), PyNone)
                # PyNone}
    ELSE {}

\* get_employee_system_status reports the session ready to process.
ReadyToProcess(ss) ==
    LET ret == get_employee_system_status(TRUE, ss)
    IN  ret.initialized /\ ret.ready_to_process

\* C30: whatever subset of the PA files is loaded when a run draws the quick
\* status or get_employee_system_status is called, the system reports ready
\* (status metric "Ready", ready_to_process true) only if PA0001 and PA0002
\* are both loaded, and the quick status and get_employee_system_status
\* agree.
C30_ReadyNeedsBothFiles ==
    [][/\ (last'.op = "render_employee_data_management" /\ last'.shown)
          => /\ last'.status = "Ready" => {"PA0001", "PA0002"} \subseteq LoadedPaFiles
             /\ (last'.status = "Ready") <=> ReadyToProcess(session_state)
       /\ (/\ last'.op = "get_employee_system_status"
           /\ last'.ret.available
           /\ last'.ret.initialized)
          => /\ last'.ret.ready_to_process
                   => {"PA0001", "PA0002"} \subseteq LoadedPaFiles
             /\ last'.ret.ready_to_process
                   <=> (render_employee_data_management(TRUE, "returns", FALSE,
                                                        session_state).status
                          = "Ready")]_vars

====
